---- MODULE Spec2Model ----
(***************************************************************************)
(* The App component of src/chatbot_react.js (the React client of the PDF  *)
(* Q&A chatbot) as a state machine: its seven useState cells, its four     *)
(* event handlers, the continuations that run when an axios request        *)
(* settles, the `disabled` / conditional-rendering gates of its controls,  *)
(* and the requests in flight between the client and the backend.          *)
(***************************************************************************)
EXTENDS Naturals, Sequences, FiniteSets, Bags

VARIABLES
    file,         \* useState(null): the selected File, or NULL
    uploading,    \* useState(false)
    pdfUploaded,  \* useState(false)
    messages,     \* useState([]): sequence of message records
    question,     \* useState(''): sequence of characters
    loading,      \* useState(false)
    uploadInfo,   \* useState(null): response.data of the last successful upload
    net,          \* bag of axios requests sent and not yet settled in the client
    backend,      \* the backend session: NULL (EMPTY) or the indexed document
    alert,        \* the window.alert raised by the step just taken, or NoAlert
    last          \* the handler step just taken (position of the callbacks)

vars == <<file, uploading, pdfUploaded, messages, question, loading,
          uploadInfo, net, backend, alert, last>>

\* the useState cells of App
ui == <<file, uploading, pdfUploaded, messages, question, loading, uploadInfo>>

----------------------------------------------------------------------------
(* Bounds *)

\* requests that may be in flight together
MaxInFlight == 2
\* length of the conversation the model follows
MaxMsgs == 4

----------------------------------------------------------------------------
(* Values *)

\* null / undefined (a record, so that it compares with File and data objects)
NULL == [null |-> TRUE]
NoAlert == "none"

PdfType == "application/pdf"

\* what e.target.files[0] can be: undefined, a non-PDF file, or a PDF
PdfFiles == { [name |-> "a.pdf", type |-> PdfType],
              [name |-> "b.pdf", type |-> PdfType] }
OtherFiles == { [name |-> "n.txt", type |-> "text/plain"] }
Selections == {NULL} \cup OtherFiles \cup PdfFiles

Space == " "

\* what the question input can hold: nothing, white space only, a plain
\* question, and questions with white space around them
Questions == { <<>>, <<Space>>, <<"a">>, <<Space, "a">>, <<"a", Space>> }

\* String.prototype.trim: strip leading and trailing white space
RECURSIVE TrimLeft(_)
TrimLeft(s) ==
    IF s # <<>> /\ Head(s) = Space THEN TrimLeft(Tail(s)) ELSE s

RECURSIVE TrimRight(_)
TrimRight(s) ==
    IF s # <<>> /\ s[Len(s)] = Space THEN TrimRight(SubSeq(s, 1, Len(s) - 1)) ELSE s

Trim(s) == TrimRight(TrimLeft(s))

\* !question, without the trim
Blank_NoTrim(q) == q = <<>>

\* !question.trim()
Blank(q) == Trim(q) = <<>>

----------------------------------------------------------------------------
(* Messages *)

Msg(t, c, s, l) == [type |-> t, content |-> c, sources |-> s, late |-> l]

\* line 46-51: the system message built from response.data
SystemMessage(data) ==
    Msg("system", [text |-> "PDF processed successfully", pages |-> data.pages,
                   chunks |-> data.chunks], <<>>, FALSE)

\* line 72
UserMessage(q) == Msg("user", [text |-> q], <<>>, FALSE)

\* line 82-86; `late` records that the request was sent before the most
\* recent successful upload
BotMessage(r) == Msg("bot", r.data.answer, r.data.sources, r.late)

\* line 90-93
\* error.response?.data?.error || error.message
ErrorText(data) == IF "error" \in DOMAIN data THEN data.error ELSE data.message

ErrorMessage(r) == Msg("error", [error |-> ErrorText(r.data)], <<>>, r.late)

----------------------------------------------------------------------------
(* Requests in flight *)

\* a request: kind, payload, where it is (sent / ok / err), the response
\* data, and two history fields: `late` (an /ask sent before the most recent
\* successful upload) and `pre` (the cells as they were when an /upload
\* was started)
Req(k, f, q, pre) ==
    [kind |-> k, file |-> f, question |-> q, status |-> "sent", data |-> NULL,
     late |-> FALSE, pre |-> pre]

One(r) == SetToBag({r})

InFlight(k) == { r \in BagToSet(net) : r.kind = k }

RECURSIVE SumCopies(_, _)
SumCopies(S, b) ==
    IF S = {} THEN 0
    ELSE LET r == CHOOSE x \in S : TRUE
         IN  CopiesIn(r, b) + SumCopies(S \ {r}, b)

\* number of requests of kind k sent and not yet settled
Count(k) == SumCopies(InFlight(k), net)

Total == BagCardinality(net)

Replace(b, r, s) == (b (-) One(r)) (+) One(s)

\* every /ask in flight now predates the most recent successful upload
Outdated(r) == IF r.kind = "ask" THEN [r EXCEPT !.late = TRUE] ELSE r

MarkLate(b) ==
    LET T == { Outdated(r) : r \in BagToSet(b) }
    IN  [ x \in T |-> SumCopies({ r \in BagToSet(b) : Outdated(r) = x }, b) ]

----------------------------------------------------------------------------
(* The backend (app.py is not part of the sources: modelled from the       *)
(* specification's session state machine and result shapes)                *)

PagesOf(f) == IF f.name = "a.pdf" THEN 3 ELSE 1
ChunksOf(f) == IF f.name = "a.pdf" THEN 5 ELSE 0

UploadResult(f) == [filename |-> f.name, pages |-> PagesOf(f), chunks |-> ChunksOf(f)]

AskResult(doc, q) ==
    [answer |-> [about |-> doc.name, question |-> q],
     sources |-> <<[page |-> 1, content |-> doc.name]>>]

Failure(e) == [error |-> e]

\* no response reached the client
NetworkError == [message |-> "Network Error"]

Settle(r, st, d) == [r EXCEPT !.status = st, !.data = d]

\* upload: tears the session down, then either indexes the whole document
\* or leaves the session EMPTY and reports the failure
BackendUpload(r) ==
    \/ /\ backend' = r.file
       /\ net' = Replace(net, r, Settle(r, "ok", UploadResult(r.file)))
    \/ /\ backend' = NULL
       /\ net' = Replace(net, r, Settle(r, "err", Failure("EmbeddingError")))

\* ask: NoDocumentError from EMPTY; from INDEXED an answer or a failure;
\* the session is not changed
BackendAsk(r) ==
    /\ backend' = backend
    /\ IF backend = NULL
       THEN net' = Replace(net, r, Settle(r, "err", Failure("NoDocumentError")))
       ELSE \/ net' = Replace(net, r, Settle(r, "ok", AskResult(backend, r.question)))
            \/ net' = Replace(net, r, Settle(r, "err", Failure("SynthesisError")))

\* reset: valid from any state, clears the session
BackendReset(r) ==
    /\ backend' = NULL
    /\ net' = Replace(net, r, Settle(r, "ok", NULL))

\* the backend takes one request that reached it and answers it
Backend ==
    /\ \E r \in BagToSet(net) :
          /\ r.status = "sent"
          /\ CASE r.kind = "upload" -> BackendUpload(r)
               [] r.kind = "ask"    -> BackendAsk(r)
               [] r.kind = "reset"  -> BackendReset(r)
    /\ alert' = NoAlert
    /\ last' = "backend"
    /\ UNCHANGED ui

\* a request or its response is lost: axios rejects with error.message only
NetFail ==
    /\ \E r \in BagToSet(net) :
          /\ r.status # "err"
          /\ net' = Replace(net, r, Settle(r, "err", NetworkError))
    /\ alert' = NoAlert
    /\ last' = "netFail"
    /\ UNCHANGED <<ui, backend>>

----------------------------------------------------------------------------
(* The event handlers of App *)

\* the cells an /upload finds when it is started
Snapshot == [pdfUploaded |-> pdfUploaded, uploadInfo |-> uploadInfo,
             messages |-> messages, file |-> file]

\* handleFileChange without the type check of line 19
handleFileChange_AnyType(selectedFile) ==
    /\ IF selectedFile # NULL
       THEN /\ file' = selectedFile
            /\ alert' = NoAlert
            /\ last' = "fileSet"
       ELSE /\ file' = file
            /\ alert' = "Please select a valid PDF file"
            /\ last' = "fileRejected"
    /\ UNCHANGED <<uploading, pdfUploaded, messages, question, loading,
                   uploadInfo, net, backend>>

\* line 17-24
handleFileChange(selectedFile) ==
    /\ IF selectedFile # NULL /\ selectedFile.type = PdfType
       THEN /\ file' = selectedFile
            /\ alert' = NoAlert
            /\ last' = "fileSet"
       ELSE /\ file' = file
            /\ alert' = "Please select a valid PDF file"
            /\ last' = "fileRejected"
    /\ UNCHANGED <<uploading, pdfUploaded, messages, question, loading,
                   uploadInfo, net, backend>>

\* line 26-38: up to the await of axios.post(`/upload`)
handleUpload ==
    /\ file # NULL => Total < MaxInFlight
    /\ IF file = NULL
       THEN /\ alert' = "Please select a PDF file first"
            /\ last' = "uploadNoFile"
            /\ UNCHANGED <<uploading, net>>
       ELSE /\ uploading' = TRUE
            /\ net' = net (+) One(Req("upload", file, <<>>, Snapshot))
            /\ alert' = NoAlert
            /\ last' = "uploadSent"
    /\ UNCHANGED <<file, pdfUploaded, messages, question, loading, uploadInfo, backend>>

\* line 44-51 and 54-56: the /upload promise resolved
UploadResolved(r) ==
    /\ pdfUploaded' = TRUE
    /\ uploadInfo' = r.data
    /\ messages' = <<SystemMessage(r.data)>>
    /\ uploading' = FALSE
    /\ net' = MarkLate(net (-) One(r))
    /\ alert' = NoAlert
    /\ last' = "uploadOk"
    /\ UNCHANGED <<file, question, loading, backend>>

\* UploadRejected, had the flag been set in the finally block
UploadRejected_SetsLoaded(r) ==
    /\ alert' = <<"Error uploading PDF: ", ErrorText(r.data)>>
    /\ uploading' = FALSE
    /\ pdfUploaded' = TRUE
    /\ net' = net (-) One(r)
    /\ last' = "uploadFailed"
    /\ UNCHANGED <<file, messages, question, loading, uploadInfo, backend>>

\* line 52-56: the /upload promise rejected
UploadRejected(r) ==
    /\ alert' = <<"Error uploading PDF: ", ErrorText(r.data)>>
    /\ uploading' = FALSE
    /\ net' = net (-) One(r)
    /\ last' = "uploadFailed"
    /\ UNCHANGED <<file, pdfUploaded, messages, question, loading, uploadInfo, backend>>

\* handleAskQuestion without the pdfUploaded check of line 66-69
handleAskQuestion_NoPdfCheck ==
    /\ ~Blank(question) =>
          /\ Total < MaxInFlight
          /\ Len(messages) + Count("ask") + 2 <= MaxMsgs
    /\ IF Blank(question)
       THEN /\ alert' = NoAlert
            /\ last' = "askBlank"
            /\ UNCHANGED <<messages, question, loading, net>>
       ELSE /\ messages' = Append(messages, UserMessage(question))
            /\ question' = <<>>
            /\ loading' = TRUE
            /\ net' = net (+) One(Req("ask", NULL, question, NULL))
            /\ alert' = NoAlert
            /\ last' = "askSent"
    /\ UNCHANGED <<file, uploading, pdfUploaded, uploadInfo, backend>>

\* line 59-80: up to the await of axios.post(`/ask`)
handleAskQuestion ==
    /\ (~Blank(question) /\ pdfUploaded) =>
          /\ Total < MaxInFlight
          /\ Len(messages) + Count("ask") + 2 <= MaxMsgs
    /\ IF Blank(question)
       THEN /\ alert' = NoAlert
            /\ last' = "askBlank"
            /\ UNCHANGED <<messages, question, loading, net>>
       ELSE IF ~pdfUploaded
       THEN /\ alert' = "Please upload a PDF first"
            /\ last' = "askNoPdf"
            /\ UNCHANGED <<messages, question, loading, net>>
       ELSE /\ messages' = Append(messages, UserMessage(question))
            /\ question' = <<>>
            /\ loading' = TRUE
            /\ net' = net (+) One(Req("ask", NULL, question, NULL))
            /\ alert' = NoAlert
            /\ last' = "askSent"
    /\ UNCHANGED <<file, uploading, pdfUploaded, uploadInfo, backend>>

\* AskResolved without the finally block's setLoading(false)
AskResolved_KeepsLoading(r) ==
    /\ messages' = Append(messages, BotMessage(r))
    /\ net' = net (-) One(r)
    /\ alert' = NoAlert
    /\ last' = "askOk"
    /\ UNCHANGED <<file, uploading, pdfUploaded, question, loading, uploadInfo, backend>>

\* line 82-88 and 95-97: the /ask promise resolved
AskResolved(r) ==
    /\ messages' = Append(messages, BotMessage(r))
    /\ loading' = FALSE
    /\ net' = net (-) One(r)
    /\ alert' = NoAlert
    /\ last' = "askOk"
    /\ UNCHANGED <<file, uploading, pdfUploaded, question, uploadInfo, backend>>

\* AskRejected, had a failed answer been taken for a lost document
AskRejected_ClearsDocument(r) ==
    /\ messages' = Append(messages, ErrorMessage(r))
    /\ loading' = FALSE
    /\ pdfUploaded' = FALSE
    /\ uploadInfo' = NULL
    /\ net' = net (-) One(r)
    /\ alert' = NoAlert
    /\ last' = "askFailed"
    /\ UNCHANGED <<file, uploading, question, backend>>

\* line 89-97: the /ask promise rejected
AskRejected(r) ==
    /\ messages' = Append(messages, ErrorMessage(r))
    /\ loading' = FALSE
    /\ net' = net (-) One(r)
    /\ alert' = NoAlert
    /\ last' = "askFailed"
    /\ UNCHANGED <<file, uploading, pdfUploaded, question, uploadInfo, backend>>

\* line 100-102: up to the await of axios.post(`/reset`)
handleReset ==
    /\ Total < MaxInFlight
    /\ net' = net (+) One(Req("reset", NULL, <<>>, NULL))
    /\ alert' = NoAlert
    /\ last' = "resetSent"
    /\ UNCHANGED <<ui, backend>>

\* ResetResolved without setMessages([])
ResetResolved_KeepsMessages(r) ==
    /\ file' = NULL
    /\ pdfUploaded' = FALSE
    /\ uploadInfo' = NULL
    /\ question' = <<>>
    /\ net' = net (-) One(r)
    /\ alert' = NoAlert
    /\ last' = "resetOk"
    /\ UNCHANGED <<messages, uploading, loading, backend>>

\* ResetResolved without setUploadInfo(null)
ResetResolved_KeepsUploadInfo(r) ==
    /\ file' = NULL
    /\ pdfUploaded' = FALSE
    /\ messages' = <<>>
    /\ question' = <<>>
    /\ net' = net (-) One(r)
    /\ alert' = NoAlert
    /\ last' = "resetOk"
    /\ UNCHANGED <<uploadInfo, uploading, loading, backend>>

\* ResetResolved, had it also taken the typing indicator down
ResetResolved_ClearsLoading(r) ==
    /\ file' = NULL
    /\ pdfUploaded' = FALSE
    /\ messages' = <<>>
    /\ uploadInfo' = NULL
    /\ question' = <<>>
    /\ loading' = FALSE
    /\ net' = net (-) One(r)
    /\ alert' = NoAlert
    /\ last' = "resetOk"
    /\ UNCHANGED <<uploading, backend>>

\* line 103-107: the /reset promise resolved
ResetResolved(r) ==
    /\ file' = NULL
    /\ pdfUploaded' = FALSE
    /\ messages' = <<>>
    /\ uploadInfo' = NULL
    /\ question' = <<>>
    /\ net' = net (-) One(r)
    /\ alert' = NoAlert
    /\ last' = "resetOk"
    /\ UNCHANGED <<uploading, loading, backend>>

\* ResetRejected, had the cells been cleared whatever the outcome
ResetRejected_ClearsAnyway(r) ==
    /\ file' = NULL
    /\ pdfUploaded' = FALSE
    /\ messages' = <<>>
    /\ uploadInfo' = NULL
    /\ question' = <<>>
    /\ alert' = <<"Error resetting: ", r.data.message>>
    /\ net' = net (-) One(r)
    /\ last' = "resetFailed"
    /\ UNCHANGED <<uploading, loading, backend>>

\* line 108-110: the /reset promise rejected
ResetRejected(r) ==
    /\ alert' = <<"Error resetting: ", r.data.message>>
    /\ net' = net (-) One(r)
    /\ last' = "resetFailed"
    /\ UNCHANGED <<ui, backend>>

\* line 203: onChange of the question input
setQuestionFromInput(value) ==
    /\ question' = value
    /\ alert' = NoAlert
    /\ last' = "typed"
    /\ UNCHANGED <<file, uploading, pdfUploaded, messages, loading, uploadInfo,
                   net, backend>>

\* the continuation of an awaited request runs once the request has settled
UploadSettles ==
    \E r \in InFlight("upload") :
        \/ r.status = "ok" /\ UploadResolved(r)
        \/ r.status = "err" /\ UploadRejected(r)

AskSettles ==
    \E r \in InFlight("ask") :
        \/ r.status = "ok" /\ AskResolved(r)
        \/ r.status = "err" /\ AskRejected(r)

ResetSettles ==
    \E r \in InFlight("reset") :
        \/ r.status = "ok" /\ ResetResolved(r)
        \/ r.status = "err" /\ ResetRejected(r)

----------------------------------------------------------------------------
(* The controls of App: what the rendered page lets the user do *)

\* line 133
FileInputDisabled == uploading \/ pdfUploaded
\* the upload button without `|| pdfUploaded`
UploadButtonDisabled_IgnoresLoaded == file = NULL \/ uploading
\* line 138
UploadButtonDisabled == file = NULL \/ uploading \/ pdfUploaded
\* line 154
ResetButtonShown == pdfUploaded
\* line 205
QuestionInputDisabled == ~pdfUploaded \/ loading
\* line 207
SubmitDisabled == ~pdfUploaded \/ loading \/ Blank(question)

ChooseFile == ~FileInputDisabled /\ \E f \in Selections : handleFileChange(f)
ClickUpload == ~UploadButtonDisabled /\ handleUpload
ClickReset == ResetButtonShown /\ handleReset
TypeQuestion == ~QuestionInputDisabled /\ \E q \in Questions : setQuestionFromInput(q)
SubmitQuestion == ~SubmitDisabled /\ handleAskQuestion

----------------------------------------------------------------------------
(* Specifications *)

Init ==
    /\ file = NULL
    /\ uploading = FALSE
    /\ pdfUploaded = FALSE
    /\ messages = <<>>
    /\ question = <<>>
    /\ loading = FALSE
    /\ uploadInfo = NULL
    /\ net = EmptyBag
    /\ backend = NULL
    /\ alert = NoAlert
    /\ last = "mounted"

\* the page as rendered: handlers run only through enabled controls
Next ==
    \/ ChooseFile
    \/ ClickUpload
    \/ ClickReset
    \/ TypeQuestion
    \/ SubmitQuestion
    \/ UploadSettles
    \/ AskSettles
    \/ ResetSettles
    \/ Backend
    \/ NetFail

Spec == Init /\ [][Next]_vars

\* the handlers called directly, whatever the controls show, one call at a
\* time: each call is awaited before the next one is made
Idle == net = EmptyBag

CallFileChange == Idle /\ \E f \in Selections : handleFileChange(f)
CallUpload == Idle /\ handleUpload
CallReset == Idle /\ handleReset
CallSetQuestion == Idle /\ \E q \in Questions : setQuestionFromInput(q)
CallAskQuestion == Idle /\ handleAskQuestion

HandlerNext ==
    \/ CallFileChange
    \/ CallUpload
    \/ CallReset
    \/ CallSetQuestion
    \/ CallAskQuestion
    \/ UploadSettles
    \/ AskSettles
    \/ ResetSettles
    \/ Backend
    \/ NetFail

HandlerSpec == Init /\ [][HandlerNext]_vars

\* an /ask that was sent gets its response or fails (the assumption under
\* which a reply is promised), and the awaiting continuation then runs
AskAnswered ==
    /\ Backend \/ NetFail
    /\ \E r \in InFlight("ask") :
          r.status = "sent" /\ CopiesIn(r, net') < CopiesIn(r, net)

FairSpec == Spec /\ WF_vars(AskAnswered) /\ WF_vars(AskSettles)

\* the steps that handle a failed request
Rejections == {"uploadFailed", "askFailed", "resetFailed"}

\* the behaviours of the page in which no failed request is ever handled:
\* whenever nothing is in flight, every request sent was handled successfully
UploadSucceeds == UploadSettles /\ last' \notin Rejections
AskSucceeds == AskSettles /\ last' \notin Rejections
ResetSucceeds == ResetSettles /\ last' \notin Rejections

SuccessNext ==
    \/ ChooseFile
    \/ ClickUpload
    \/ ClickReset
    \/ TypeQuestion
    \/ SubmitQuestion
    \/ UploadSucceeds
    \/ AskSucceeds
    \/ ResetSucceeds
    \/ Backend
    \/ NetFail

SuccessSpec == Init /\ [][SuccessNext]_vars

----------------------------------------------------------------------------
(* Properties *)

\* the steps of handleAskQuestion: the call (up to the await) and the two
\* continuations
AskCallSteps == {"askBlank", "askNoPdf", "askSent"}
AskSteps == AskCallSteps \cup {"askOk", "askFailed"}

\* the state a successful reset leaves (line 103-107)
Cleared ==
    /\ file = NULL
    /\ pdfUploaded = FALSE
    /\ messages = <<>>
    /\ uploadInfo = NULL
    /\ question = <<>>

\* C1: a call of handleAskQuestion with a non-blank question while
\* pdfUploaded is false sends no /ask request (the requests in flight and the
\* backend session stay as they are), leaves messages, question, loading,
\* uploadInfo and file unchanged, and raises the alert 'Please upload a PDF
\* first' as its only outcome.
C1_AskWithoutDocumentRejected ==
    [][ (~pdfUploaded /\ ~Blank(question) /\ last' \in AskCallSteps) =>
          /\ last' = "askNoPdf"
          /\ alert' = "Please upload a PDF first"
          /\ UNCHANGED <<messages, question, loading, uploadInfo, file, uploading,
                         pdfUploaded, net, backend>> ]_vars

C1_Witness ==
    /\ last = "askNoPdf"
    /\ ~pdfUploaded
    /\ ~Blank(question)
    /\ alert = "Please upload a PDF first"

\* C2: pdfUploaded is false at the start and while an /upload is in flight;
\* it changes from false to true only in the step that handles a successful
\* /upload response; and it is false after the step that handles a failed
\* upload.
C2_LoadedOnlyOnUploadSuccess ==
    /\ ~pdfUploaded
    /\ [](InFlight("upload") # {} => ~pdfUploaded)
    /\ [][ (~pdfUploaded /\ pdfUploaded') => last' = "uploadOk" ]_vars
    /\ [][ last' = "uploadFailed" => ~pdfUploaded' ]_vars

C2_Witness ==
    /\ last = "uploadOk"
    /\ pdfUploaded
    /\ ~uploading

\* C3: when an /upload fails, pdfUploaded, uploadInfo, messages and file
\* are exactly as they were when the upload was started, uploading is false
\* again, and (pdfUploaded being false) an ask issued next is rejected.
C3_FailedUploadLeavesSessionAsBefore ==
    [][ \A r \in InFlight("upload") :
          (last' = "uploadFailed" /\ net' = net (-) One(r)) =>
             /\ r.pre = [pdfUploaded |-> pdfUploaded', uploadInfo |-> uploadInfo',
                         messages |-> messages', file |-> file']
             /\ ~uploading'
             /\ ~pdfUploaded' ]_vars

\* C4: while an /ask request is in flight, no /reset and no /upload request
\* is issued.
C4_NoResetOrUploadDuringAsk ==
    ~(InFlight("ask") # {} /\ last \in {"resetSent", "uploadSent"})

\* C5: at most one state-mutating request (/upload or /reset) is in flight
\* at any time.
C5_OneMutatingRequestInFlight ==
    Count("upload") + Count("reset") <= 1

\* C6: whenever pdfUploaded is false, messages is empty.
C6_NoMessagesWithoutDocument ==
    ~pdfUploaded => messages = <<>>

\* C7: every bot or error message in messages answers an /ask request that
\* was sent after the most recent successful upload.
C7_OnlyAnswersAboutCurrentDocument ==
    \A i \in 1..Len(messages) :
        messages[i].type \in {"bot", "error"} => ~messages[i].late

\* C8: the step that handles a successful /reset response leaves file null,
\* pdfUploaded false, messages empty, uploadInfo null and question empty,
\* from whatever state it is taken; taken in that cleared state (a second
\* reset in a row) it changes none of them.
C8_ResetIdempotent ==
    /\ [][ last' = "resetOk" => Cleared' ]_vars
    /\ [][ (Cleared /\ last' = "resetOk") =>
              UNCHANGED <<file, pdfUploaded, messages, uploadInfo, question>> ]_vars

\* a reset has just succeeded and a second successful reset is about to be
\* handled in the cleared state
C8_Witness ==
    /\ last = "resetOk"
    /\ Cleared
    /\ \E r \in InFlight("reset") : r.status = "ok"

\* C9 as stated: an /upload can be started in both session states, that
\* is, whenever a file is selected and no upload is running, whether or not
\* a document is loaded.
C9_UploadPermittedInBothStates ==
    (file # NULL /\ ~uploading) => ~UploadButtonDisabled

\* C9 as amended: an /upload is started only while no document is loaded
\* (pdfUploaded false and uploadInfo null).
C9_UploadOnlyWithoutDocument ==
    last = "uploadSent" => (~pdfUploaded /\ uploadInfo = NULL)

\* an upload started after a loaded document (one of whose questions is
\* still unanswered) was reset
C9_Witness ==
    /\ last = "uploadSent"
    /\ ~pdfUploaded
    /\ InFlight("upload") # {}
    /\ InFlight("ask") # {}

\* C10: no step of handleAskQuestion (a rejected call, the call that sends
\* the request, the handling of a success response, the handling of an
\* error response) changes pdfUploaded, uploadInfo or file (nor uploading).
C10_AskLeavesSessionAlone ==
    [][ last' \in AskSteps =>
          UNCHANGED <<pdfUploaded, uploadInfo, file, uploading>> ]_vars

C10_Witness ==
    /\ last = "askFailed"
    /\ pdfUploaded
    /\ uploadInfo # NULL
    /\ file # NULL

\* C11: uploadInfo is non-null exactly when pdfUploaded is true, in every
\* reachable state, and no step changes one of "pdfUploaded" and "uploadInfo
\* is null" without changing the other.
C11_DocumentSetAndClearedTogether ==
    /\ []((uploadInfo # NULL) <=> pdfUploaded)
    /\ [][ (pdfUploaded' # pdfUploaded) <=>
           ((uploadInfo' = NULL) # (uploadInfo = NULL)) ]_vars

\* a document was loaded and has just been cleared by a reset
C11_Witness ==
    /\ last = "resetOk"
    /\ ~pdfUploaded
    /\ uploadInfo = NULL
    /\ backend = NULL

C13_ClientAndBackendAgreeWhenIdle ==
    net = EmptyBag => (pdfUploaded <=> backend # NULL)

\* C14: at most one /ask request is in flight at any time, and loading is
\* true exactly in the states where an /ask request is in flight.
C14_OneAskInFlightIffLoading ==
    /\ Count("ask") <= 1
    /\ loading <=> (Count("ask") = 1)

\* an /ask is still outstanding after a reset and a new upload were done
C14_Witness ==
    /\ loading
    /\ pdfUploaded
    /\ \E r \in InFlight("ask") : r.late

\* C15: the step that handles a failed /reset leaves file, pdfUploaded,
\* messages, uploadInfo and question as they are, so a loaded document
\* stays loaded and its conversation stays.
C15_FailedResetChangesNothing ==
    [][ last' = "resetFailed" =>
          UNCHANGED <<file, pdfUploaded, messages, uploadInfo, question>> ]_vars

\* a reset has just failed with the document loaded and the conversation shown
C15_Witness ==
    /\ last = "resetFailed"
    /\ pdfUploaded
    /\ uploadInfo # NULL
    /\ file # NULL
    /\ messages # <<>>

\* the question holds nothing but white space
WhiteSpaceOnly(q) == \A i \in 1..Len(q) : q[i] = Space

\* C16: a call of handleAskQuestion with an empty or whitespace-only
\* question sends no /ask request, raises no alert and leaves every cell
\* unchanged, whether or not a document is loaded.
C16_BlankQuestionIgnored ==
    [][ (WhiteSpaceOnly(question) /\ last' \in AskCallSteps) =>
          /\ last' = "askBlank"
          /\ alert' = NoAlert
          /\ UNCHANGED <<ui, net, backend>> ]_vars

\* a whitespace-only question was submitted with a document loaded
C16_Witness ==
    /\ last = "askBlank"
    /\ question = <<Space>>
    /\ pdfUploaded
    /\ net = EmptyBag

\* C17: file is null or a file of type application/pdf, and so is the file
\* of every /upload request in flight (never null); selecting a non-PDF or
\* nothing leaves file unchanged; a call of handleUpload with file null
\* sends no request.
C17_OnlyPdfs ==
    /\ [](file = NULL \/ file.type = PdfType)
    /\ [](\A r \in InFlight("upload") : r.file # NULL /\ r.file.type = PdfType)
    /\ [][ \A f \in Selections :
              (handleFileChange(f) /\ (f = NULL \/ f.type # PdfType)) =>
                 file' = file ]_vars
    /\ [][ (file = NULL /\ last' \in {"uploadNoFile", "uploadSent"}) =>
              (last' = "uploadNoFile" /\ net' = net) ]_vars

\* a non-PDF was offered while a PDF was selected, and the PDF is still there
C17_Witness ==
    /\ last = "fileRejected"
    /\ file \in PdfFiles

====
